---- MODULE Spec2Model ----
(***************************************************************************)
(* Model of the Todo API of src/src/main.rs: five axum handlers over one   *)
(* SQLite table `todos`.  A step of the model is one SQL statement of one  *)
(* handler (the storage engine runs each statement atomically); a handler  *)
(* with a single statement is therefore one step, and update_todo, which   *)
(* awaits a SELECT and then an UPDATE, is two steps between which the      *)
(* statements of other requests may run.                                   *)
(***************************************************************************)
EXTENDS Naturals, Sequences, FiniteSets, Bags, TLC

\* ---------------------------------------------------------------- bounds
NumIds == 2        \* how many UUIDs the generator can hand out
MaxInflight == 2   \* update requests suspended between their two statements
MaxHist == 3       \* requests of a recorded run (specification SpecSer)

\* ------------------------------------------------------------ data types
\* StatusCode values: Ok(Json(..)) is 200.
OK == 200
NO_CONTENT == 204
NOT_FOUND == 404
INTERNAL_SERVER_ERROR == 500

Uuids == 1 .. NumIds
\* The title strings clients send.  The handlers copy a title and never
\* inspect it, so two distinct values stand for all of them.
Titles == {"buy milk", "new"}

\* Uuid::to_string: the textual form, a non-empty string.
to_string(u) == <<u>>

\* The strings a client can put in the :id path segment.
PathIds == {to_string(u) : u \in Uuids}

\* Option<String>: <<>> is None, <<t>> is Some(t).
OptTitles == {<<>>} \cup {<<t>> : t \in Titles}

\* struct Todo
Todo(id, title, completed) == [id |-> id, title |-> title, completed |-> completed]

VARIABLES
    table,      \* the rows of `todos`: a set of Todo records
    minted,     \* the UUIDs Uuid::new_v4 has returned so far
    inflight,   \* bag of update_todo tasks suspended after their SELECT
    last,       \* the statement that ran last, with the response it led to
    created,    \* ids returned by a successful create
    deleted,    \* ids whose delete answered 204
    hist,       \* bag of the finished exchanges of a recorded run
    recording   \* whether the run is recorded (and bounded by MaxHist)

vars == <<table, minted, inflight, last, created, deleted, hist, recording>>

\* -------------------------------------------------------- storage engine
Range(s) == {s[i] : i \in 1 .. Len(s)}

\* The orders in which fetch_all may return a set of rows (no ORDER BY).
\* Keeps whatever the statement selected: one entry per row.
Orders(rows) ==
    {s \in [1 .. Cardinality(rows) -> rows] : Range(s) = rows}

\* Mutant: the list query filtered by a WHERE completed clause.
Mut_SelectAll_Where(tbl) == {r \in tbl : r.completed}

\* SELECT id, title, completed FROM todos
SelectAll(tbl) == tbl

\* SELECT id, title, completed FROM todos WHERE id = ?
SelectById(tbl, id) == {r \in tbl : r.id = id}

\* Mutant: fetch_one in place of fetch_optional, RowNotFound being an Err.
Mut_fetch_one(rows, ok) ==
    IF ~ok \/ rows = {} THEN [ok |-> FALSE, val |-> <<>>]
    ELSE [ok |-> TRUE, val |-> <<CHOOSE r \in rows : TRUE>>]

\* fetch_optional: Err, Ok(None) or Ok(Some(row)).
fetch_optional(rows, ok) ==
    IF ~ok THEN [ok |-> FALSE, val |-> <<>>]
    ELSE IF rows = {} THEN [ok |-> TRUE, val |-> <<>>]
    ELSE [ok |-> TRUE, val |-> <<CHOOSE r \in rows : TRUE>>]

\* INSERT INTO todos (id, title, completed) VALUES (?, ?, ?) under
\* id TEXT PRIMARY KEY: a second row with the id is a constraint violation.
Insert(tbl, todo, ok) ==
    IF ok /\ SelectById(tbl, todo.id) = {}
    THEN [ok |-> TRUE, table |-> tbl \cup {todo}]
    ELSE [ok |-> FALSE, table |-> tbl]

\* Mutant: the UPDATE without its WHERE clause.
Mut_Update_NoWhere(tbl, title, completed, id, ok) ==
    IF ok
    THEN [ok |-> TRUE,
          table |-> {Todo(r.id, title, completed) : r \in tbl},
          rows_affected |-> Cardinality(tbl)]
    ELSE [ok |-> FALSE, table |-> tbl, rows_affected |-> 0]

\* Mutant: an upsert (INSERT OR REPLACE) in place of the UPDATE.
Mut_Update_Upsert(tbl, title, completed, id, ok) ==
    IF ok
    THEN [ok |-> TRUE,
          table |-> {r \in tbl : r.id # id} \cup {Todo(id, title, completed)},
          rows_affected |-> 1]
    ELSE [ok |-> FALSE, table |-> tbl, rows_affected |-> 0]

\* UPDATE todos SET title = ?, completed = ? WHERE id = ?
Update(tbl, title, completed, id, ok) ==
    IF ok
    THEN [ok |-> TRUE,
          table |-> {IF r.id = id THEN Todo(r.id, title, completed) ELSE r : r \in tbl},
          rows_affected |-> Cardinality(SelectById(tbl, id))]
    ELSE [ok |-> FALSE, table |-> tbl, rows_affected |-> 0]

\* Mutant: the DELETE without its WHERE clause.
Mut_Delete_NoWhere(tbl, id, ok) ==
    IF ok
    THEN [ok |-> TRUE, table |-> {}, rows_affected |-> Cardinality(tbl)]
    ELSE [ok |-> FALSE, table |-> tbl, rows_affected |-> 0]

\* DELETE FROM todos WHERE id = ?
Delete(tbl, id, ok) ==
    IF ok
    THEN [ok |-> TRUE,
          table |-> {r \in tbl : r.id # id},
          rows_affected |-> Cardinality(SelectById(tbl, id))]
    ELSE [ok |-> FALSE, table |-> tbl, rows_affected |-> 0]

\* Mutant: an id source that can repeat a value.
Mut_new_v4_repeat(used) == Uuids

\* Uuid::new_v4(): 122 random bits.  The model takes the generator's
\* contract, that a value once generated is not generated again.
new_v4(used) == Uuids \ used

\* ------------------------------------------------------------- exchanges
\* What the last step was and what the client got: op is the handler, stmt
\* the SQL statement the step ran, id the path id (<<>> when the route has
\* none), payload the request's title, failed whether the statement
\* failed, status the response and body its JSON.  While an update_todo is
\* between its two statements it has not answered: status is 0 and body
\* holds its local `todo`.
Exchange(op, stmt, id, payload, failed, status, body) ==
    [op |-> op, stmt |-> stmt, id |-> id, payload |-> payload,
     failed |-> failed, status |-> status, body |-> body]

Record(e) == IF recording THEN hist (+) SetToBag({e}) ELSE hist

Started == BagCardinality(hist) + BagCardinality(inflight)

CanBegin == recording => Started < MaxHist

\* -------------------------------------------------------------- handlers
\* list_todos:
list_todos_response(rows, ok) ==
    IF ~ok THEN [status |-> INTERNAL_SERVER_ERROR, body |-> <<>>]
    ELSE [status |-> OK, body |-> rows]

list_todos ==
    /\ CanBegin
    /\ \E ok \in BOOLEAN :
         \E rows \in (IF ok THEN Orders(SelectAll(table)) ELSE {<<>>}) :
            LET r == list_todos_response(rows, ok)
                e == Exchange("list_todos", "SELECT", <<>>, <<>>, ~ok, r.status, r.body)
            IN /\ last' = e
               /\ hist' = Record(e)
    /\ UNCHANGED <<table, minted, inflight, created, deleted, recording>>

\* Mutant: the new Todo marked completed.
Mut_create_todo_new(id, title) == Todo(id, title, TRUE)

\* create_todo: the Todo built from the payload before the INSERT.
create_todo_new(id, title) == Todo(id, title, FALSE)

create_todo_response(todo, ins) ==
    IF ~ins.ok THEN [status |-> INTERNAL_SERVER_ERROR, body |-> <<>>]
    ELSE [status |-> OK, body |-> <<todo>>]

create_todo(title) ==
    /\ CanBegin
    /\ \E u \in new_v4(minted), ok \in BOOLEAN :
         LET todo == create_todo_new(to_string(u), title)
             ins == Insert(table, todo, ok)
             r == create_todo_response(todo, ins)
             e == Exchange("create_todo", "INSERT", <<>>, <<title>>, ~ins.ok, r.status, r.body)
         IN /\ minted' = minted \cup {u}
            /\ table' = ins.table
            /\ created' = IF r.status = OK THEN created \cup {todo.id} ELSE created
            /\ last' = e
            /\ hist' = Record(e)
    /\ UNCHANGED <<inflight, deleted, recording>>

\* get_todo
get_todo_response(todo) ==
    IF ~todo.ok THEN [status |-> INTERNAL_SERVER_ERROR, body |-> <<>>]
    ELSE IF todo.val # <<>> THEN [status |-> OK, body |-> todo.val]
    ELSE [status |-> NOT_FOUND, body |-> <<>>]

get_todo(id) ==
    /\ CanBegin
    /\ \E ok \in BOOLEAN :
         LET todo == fetch_optional(SelectById(table, id), ok)
             r == get_todo_response(todo)
             e == Exchange("get_todo", "SELECT", id, <<>>, ~ok, r.status, r.body)
         IN /\ last' = e
            /\ hist' = Record(e)
    /\ UNCHANGED <<table, minted, inflight, created, deleted, recording>>

\* update_todo, lines 141-144: the row read, with the payload's title merged.
update_todo_merge(todo, payload) ==
    IF payload # <<>> THEN [todo EXCEPT !.title = payload[1]] ELSE todo

\* update_todo after its SELECT: the response when the handler returns
\* here (status 0: it goes on to the UPDATE).
update_todo_select_response(existing) ==
    IF ~existing.ok THEN [status |-> INTERNAL_SERVER_ERROR, body |-> <<>>]
    ELSE IF existing.val # <<>> THEN [status |-> 0, body |-> <<>>]
    ELSE [status |-> NOT_FOUND, body |-> <<>>]

\* update_todo after its UPDATE.
update_todo_response(todo, upd) ==
    IF ~upd.ok THEN [status |-> INTERNAL_SERVER_ERROR, body |-> <<>>]
    ELSE [status |-> OK, body |-> <<todo>>]

\* First statement of update_todo.
update_todo_select(id, payload) ==
    /\ CanBegin
    /\ BagCardinality(inflight) < MaxInflight
    /\ \E ok \in BOOLEAN :
         LET existing == fetch_optional(SelectById(table, id), ok)
             r == update_todo_select_response(existing)
         IN IF r.status = 0
            THEN LET todo == update_todo_merge(existing.val[1], payload)
                     task == [id |-> id, payload |-> payload, todo |-> todo]
                 IN /\ inflight' = inflight (+) SetToBag({task})
                    /\ last' = Exchange("update_todo", "SELECT", id, payload, FALSE, 0, <<todo>>)
                    /\ hist' = hist
            ELSE LET e == Exchange("update_todo", "SELECT", id, payload, ~ok, r.status, r.body)
                 IN /\ inflight' = inflight
                    /\ last' = e
                    /\ hist' = Record(e)
    /\ UNCHANGED <<table, minted, created, deleted, recording>>

\* Second statement of update_todo, for a suspended task.
update_todo_update(task) ==
    /\ BagIn(task, inflight)
    /\ \E ok \in BOOLEAN :
         LET upd == Update(table, task.todo.title, task.todo.completed, task.todo.id, ok)
             r == update_todo_response(task.todo, upd)
             e == Exchange("update_todo", "UPDATE", task.id, task.payload, ~ok, r.status, r.body)
         IN /\ table' = upd.table
            /\ last' = e
            /\ hist' = Record(e)
    /\ inflight' = inflight (-) SetToBag({task})
    /\ UNCHANGED <<minted, created, deleted, recording>>

\* delete_todo
delete_todo_response(result) ==
    IF ~result.ok THEN [status |-> INTERNAL_SERVER_ERROR, body |-> <<>>]
    ELSE IF result.rows_affected = 1 THEN [status |-> NO_CONTENT, body |-> <<>>]
    ELSE [status |-> NOT_FOUND, body |-> <<>>]

delete_todo(id) ==
    /\ CanBegin
    /\ \E ok \in BOOLEAN :
         LET result == Delete(table, id, ok)
             r == delete_todo_response(result)
             e == Exchange("delete_todo", "DELETE", id, <<>>, ~ok, r.status, r.body)
         IN /\ table' = result.table
            /\ deleted' = IF r.status = NO_CONTENT THEN deleted \cup {id} ELSE deleted
            /\ last' = e
            /\ hist' = Record(e)
    /\ UNCHANGED <<minted, inflight, created, recording>>

\* ---------------------------------------------------------- specification
\* main: CREATE TABLE IF NOT EXISTS todos, then serve.
InitCommon ==
    /\ table = {}
    /\ minted = {}
    /\ inflight = EmptyBag
    /\ last = Exchange("main", "CREATE TABLE", <<>>, <<>>, FALSE, 0, <<>>)
    /\ created = {}
    /\ deleted = {}
    /\ hist = EmptyBag

Init == InitCommon /\ recording = FALSE

InitSer == InitCommon /\ recording = TRUE

Tasks == DOMAIN inflight

Next ==
    \/ list_todos
    \/ \E title \in Titles : create_todo(title)
    \/ \E id \in PathIds : get_todo(id)
    \/ \E id \in PathIds, payload \in OptTitles : update_todo_select(id, payload)
    \/ \E task \in Tasks : update_todo_update(task)
    \/ \E id \in PathIds : delete_todo(id)

Spec == Init /\ [][Next]_vars

\* The same program, its finished exchanges recorded, MaxHist requests long.
SpecSer == InitSer /\ [][Next]_vars

\* -------------------------------------------------- sequential execution
\* A finished exchange e replayed alone on tbl, every statement of its
\* handler run back to back: whether the handler then answers as e reports
\* (match) and the table it leaves.  A statement that failed in e fails in
\* the replay too, and changes nothing.
SeqRun(tbl, e) ==
    LET resp == [status |-> e.status, body |-> e.body]
        same == [match |-> FALSE, table |-> tbl]
    IN
    IF e.failed
    THEN [match |-> e.status = INTERNAL_SERVER_ERROR, table |-> tbl]
    ELSE IF e.op = "list_todos"
    THEN [match |-> /\ e.body \in Orders(SelectAll(tbl))
                    /\ resp = list_todos_response(e.body, TRUE),
          table |-> tbl]
    ELSE IF e.op = "create_todo"
    THEN IF Len(e.body) # 1 THEN same
         ELSE LET todo == create_todo_new(e.body[1].id, e.payload[1])
                  ins == Insert(tbl, todo, TRUE)
              IN [match |-> resp = create_todo_response(todo, ins),
                  table |-> ins.table]
    ELSE IF e.op = "get_todo"
    THEN [match |-> resp = get_todo_response(fetch_optional(SelectById(tbl, e.id), TRUE)),
          table |-> tbl]
    ELSE IF e.op = "update_todo"
    THEN LET existing == fetch_optional(SelectById(tbl, e.id), TRUE)
             r == update_todo_select_response(existing)
         IN IF r.status # 0
            THEN [match |-> resp = r, table |-> tbl]
            ELSE LET todo == update_todo_merge(existing.val[1], e.payload)
                     upd == Update(tbl, todo.title, todo.completed, todo.id, TRUE)
                 IN [match |-> resp = update_todo_response(todo, upd),
                     table |-> upd.table]
    ELSE IF e.op = "delete_todo"
    THEN LET result == Delete(tbl, e.id, TRUE)
         IN [match |-> resp = delete_todo_response(result), table |-> result.table]
    ELSE same

\* Some order of the exchanges of h, run one at a time from tbl, gives each
\* the response it got and ends in the table as it is now.
RECURSIVE Serial(_, _)
Serial(tbl, h) ==
    IF h = EmptyBag THEN tbl = table
    ELSE \E e \in BagToSet(h) :
            LET r == SeqRun(tbl, e)
            IN r.match /\ Serial(r.table, h (-) SetToBag({e}))

\* ------------------------------------------------------------------ claims
\* The step just taken ran statement stmt of handler op.
Step(op, stmt) == last'.op = op /\ last'.stmt = stmt

TableIds(tbl) == {r.id : r \in tbl}

\* C1, create: a successful create answers with a Todo whose id is the
\* non-empty text of the UUID minted in this step, whose title is the
\* payload's and whose completed is false, and that Todo is the row of its
\* id afterwards.
C1_Create ==
    (Step("create_todo", "INSERT") /\ last'.status = OK) =>
        /\ Len(last'.body) = 1
        /\ LET todo == last'.body[1]
           IN /\ todo.id # <<>>
              /\ \E u \in minted' \ minted : todo.id = to_string(u)
              /\ <<todo.title>> = last'.payload
              /\ todo.completed = FALSE
              /\ SelectById(table', todo.id) = {todo}

\* C1, no intervening update or delete: a row stays as it is through every
\* step that is not an UPDATE or DELETE statement naming its id.
C1_Keep ==
    \A r \in table :
        ~(last'.stmt \in {"UPDATE", "DELETE"} /\ last'.id = r.id) => r \in table'

\* C1, get: a get whose statement succeeds answers 200 with the row of its id.
C1_Get ==
    (Step("get_todo", "SELECT") /\ ~last'.failed) =>
        \A r \in table : r.id = last'.id => last'.status = OK /\ last'.body = <<r>>

\* C1: a create that succeeds returns a Todo with a non-empty minted id, the
\* title sent and completed = false; the Todo is stored, stays stored
\* unchanged until an update or delete of its id, and a get of the id
\* returns 200 with exactly the stored Todo.
C1_CreateThenGet == [][C1_Create /\ C1_Keep /\ C1_Get]_vars

\* C1 witness: a get has just answered 200 with a Todo a create returned.
C1_Witness ==
    /\ last.op = "get_todo" /\ last.status = OK
    /\ last.body[1].id \in created
    /\ last.body[1].completed = FALSE
    /\ last.body[1] \in table

\* The task's SELECT was the step before this one: no statement of another
\* request ran in between.
Uninterleaved(task) ==
    last = Exchange("update_todo", "SELECT", task.id, task.payload, FALSE, 0, <<task.todo>>)

\* C2, the update: an update with a title whose two statements run back to
\* back answers 200 with the row's id, the new title and the row's
\* completed, and replaces that row alone.
C2_Update ==
    \A task \in Tasks :
        ( /\ Uninterleaved(task) /\ task.payload # <<>>
          /\ Step("update_todo", "UPDATE") /\ ~last'.failed
          /\ last'.id = task.id /\ last'.payload = task.payload ) =>
            \E old \in table :
                /\ old.id = task.id
                /\ last'.status = OK
                /\ last'.body = <<Todo(old.id, task.payload[1], old.completed)>>
                /\ table' = (table \ {old}) \cup {last'.body[1]}

\* C2, the subsequent get: a get of the id right after the update's
\* response returns the Todo the update returned.
C2_Get ==
    ( /\ last.op = "update_todo" /\ last.stmt = "UPDATE" /\ last.status = OK
      /\ last.body[1] \in table
      /\ Step("get_todo", "SELECT") /\ ~last'.failed /\ last'.id = last.id ) =>
        last'.status = OK /\ last'.body = last.body

\* C2: an update of an existing id with a title, run without interleaved
\* requests, returns 200 with the same id, the new title and the stored
\* completed; a subsequent get returns that Todo; no other row changes.
C2_UpdateTitle == [][C2_Update /\ C2_Get]_vars

\* C2 witness: a get has just returned, with two rows stored, the Todo whose
\* title an update set to "new".
C2_Witness ==
    /\ last.op = "get_todo" /\ last.status = OK
    /\ last.body[1].title = "new"
    /\ Cardinality(table) >= 2
    /\ \A r \in table : r.id # last.id => r.title = "buy milk"

\* C3 (as claimed): the UPDATE statement of an update with an empty payload
\* answers 200 and leaves the table as it was just before the statement, in
\* every interleaving.
C3_EmptyUpdateNoop ==
    [][(Step("update_todo", "UPDATE") /\ last'.payload = <<>> /\ ~last'.failed) =>
          last'.status = OK /\ table' = table]_vars

\* C4: a delete of an id that has a row returns 204 and removes that row
\* alone; from then on a get of the id returns 404, and a delete of the id
\* returns 404 and changes nothing (a statement that fails answers 500).
C4_Delete ==
    [][ /\ (Step("delete_todo", "DELETE") /\ ~last'.failed) =>
              \A r \in table : r.id = last'.id =>
                  /\ last'.status = NO_CONTENT
                  /\ table' = table \ {r}
                  /\ last'.id \in deleted'
        /\ (Step("get_todo", "SELECT") /\ last'.id \in deleted) =>
              /\ last'.status = IF last'.failed THEN INTERNAL_SERVER_ERROR ELSE NOT_FOUND
              /\ last'.body = <<>>
        /\ (Step("delete_todo", "DELETE") /\ last'.id \in deleted) =>
              /\ last'.status = IF last'.failed THEN INTERNAL_SERVER_ERROR ELSE NOT_FOUND
              /\ table' = table
      ]_vars

\* C4 witness: a second delete of a deleted id has just answered 404.
C4_Witness ==
    /\ last.op = "delete_todo" /\ last.status = NOT_FOUND
    /\ last.id \in deleted

\* C5: a get, update or delete whose lookup finds no row of its id, the
\* statement not failing, returns 404 and leaves the table unchanged; a
\* response is 500 only when a storage statement failed.
C5_NotFound ==
    [][ /\ ( /\ last'.op \in {"get_todo", "update_todo", "delete_todo"}
             /\ last'.stmt \in {"SELECT", "DELETE"}
             /\ ~last'.failed
             /\ SelectById(table, last'.id) = {} ) =>
                last'.status = NOT_FOUND /\ table' = table
        /\ last'.status = INTERNAL_SERVER_ERROR => last'.failed
      ]_vars

\* C5 witness: an update of a never-created id has just answered 404.
C5_Witness ==
    /\ last.op = "update_todo" /\ last.status = NOT_FOUND
    /\ ~last.failed
    /\ last.id \notin created

\* C6: a list never modifies the table and, its statement not failing,
\* returns 200 with each row of the table exactly once and nothing else:
\* the todos created and not since deleted, with their current fields (the
\* empty sequence on an empty table).
C6_List ==
    [][Step("list_todos", "SELECT") =>
          /\ table' = table
          /\ ~last'.failed =>
                /\ last'.status = OK
                /\ Len(last'.body) = Cardinality(table)
                /\ Range(last'.body) = table
                /\ {todo.id : todo \in Range(last'.body)} = created \ deleted
      ]_vars

\* C6 witness: a list has just returned two todos, one of them updated.
C6_Witness ==
    /\ last.op = "list_todos" /\ last.status = OK
    /\ Len(last.body) = 2
    /\ \E i \in 1 .. 2 : last.body[i].title = "new"

\* C7, the rows: at most one row per id.
C7_PrimaryKey == \A r1, r2 \in table : r1.id = r2.id => r1 = r2

\* C7, create: a create alters no existing row; one that succeeds adds
\* exactly one row, whose id no row had and no earlier create returned.
C7_Create ==
    Step("create_todo", "INSERT") =>
        /\ table \subseteq table'
        /\ last'.status # OK => table' = table
        /\ last'.status = OK =>
              /\ last'.body[1].id \notin TableIds(table)
              /\ last'.body[1].id \notin created
              /\ table' = table \cup {last'.body[1]}
              /\ Cardinality(table') = Cardinality(table) + 1
              /\ Cardinality(created') = Cardinality(created) + 1

\* C7: the table holds at most one row per id, and every successful create
\* adds exactly one row under an id that was not in the table and that no
\* earlier create returned, without altering any existing row.
C7_UniqueIds == []C7_PrimaryKey /\ [][C7_Create]_vars

\* C7 witness: a create has just succeeded after a delete, every UUID used.
C7_Witness ==
    /\ last.op = "create_todo" /\ last.status = OK
    /\ deleted # {}
    /\ Cardinality(created) = NumIds

\* C8 (as claimed): when no request is in progress, the responses given and
\* the table equal those of some one-at-a-time execution of the requests.
C8_Serializable ==
    (recording /\ inflight = EmptyBag) => Serial({}, hist)

\* C9, the states: an id has a row exactly when a create has returned it and
\* no delete of it has answered 204.
C9_Live == TableIds(table) = created \ deleted

\* C9, the steps: a row's id leaves the table only in a delete of that id
\* answering 204, and what has been created or deleted stays so.
C9_Steps ==
    /\ created \subseteq created' /\ deleted \subseteq deleted'
    /\ \A id \in TableIds(table) \ TableIds(table') :
          Step("delete_todo", "DELETE") /\ last'.id = id /\ last'.status = NO_CONTENT
    /\ \A id \in deleted : id \notin TableIds(table')

\* C9: a row of an id is present exactly from the success of its create to
\* the success of a delete of it; nothing else removes it, and after the
\* delete nothing brings it back, a stale update's UPDATE included.
C9_Lifetime == []C9_Live /\ [][C9_Steps]_vars

\* C9 witness: the UPDATE of an update has just run on an id deleted since
\* the update's SELECT.
C9_Witness ==
    /\ last.op = "update_todo" /\ last.stmt = "UPDATE" /\ ~last.failed
    /\ last.id \in deleted

\* C10 (as claimed): when an update answers 200 with a Todo, the table holds
\* a row equal to that Todo right after the update's UPDATE statement.
C10_UpdateReportsRow ==
    [][(Step("update_todo", "UPDATE") /\ last'.status = OK) =>
          last'.body[1] \in table']_vars

====
